---- MODULE Spec2Model ----
(***************************************************************************)
(* Model of backend/services.py: the ingestion flow (ingest_text_data) and *)
(* the query flow (process_query) of the RAG pipeline.                     *)
(*                                                                         *)
(* The external services (text splitter, embedding model, vector index,   *)
(* reranker, generative model) are the environment: their replies and      *)
(* their failures are the inputs of the actions.  The ingestion flow is    *)
(* Spec, the query flow QuerySpec; the query flow takes the matches as the *)
(* store's reply, whoever wrote the records.                               *)
(***************************************************************************)
EXTENDS Integers, Sequences, FiniteSets, TLC

VARIABLES store, call, query

vars == <<store, call, query>>

(* ------------------------------ constants ------------------------------ *)

\* index.upsert(..., batch_size=100, ...)
BatchSize == 100

\* index.query(..., top_k=5, ...)
TopK == 5

\* co.rerank(..., top_n=3, ...)
TopN == 3

(* ------------------------------- bounds -------------------------------- *)

\* the longest text fills two batches and leaves TailSize chunks for a third
TailSize == 1

\* a reranker breaking its contract returns indices up to IndexSlack past
\* either end of the documents
IndexSlack == 1

\* a miscounting embedding service returns Skew vectors too few or too many
Skew == 1

Sources == {"doc1"}

Bodies == {"A", "B"}

LongText == 2 * BatchSize + TailSize

ChunkCounts == {0, 1, LongText}

\* a text is a body cut into `windows` chunk-sized windows; the empty text has none
Texts == [body : Bodies, windows : ChunkCounts]

Min(a, b) == IF a <= b THEN a ELSE b

(* ------------------------------ ingestion ------------------------------ *)

\* text_splitter.split_text(text): deterministic, one chunk per window, the
\* empty text yields no chunk
SplitText(text) == [i \in 1..text.windows |-> text.body \o ToString(i - 1)]

\* the vector the embedding model computes for one chunk (deterministic)
EmbedOne(chunk) == <<"vec", chunk>>

\* embeddings_model.embed_documents(chunks) replying with m vectors: the
\* vectors of the first chunks, padded with foreign vectors when m > len(chunks)
EmbedDocuments(chunks, m) ==
    [i \in 1..m |-> IF i <= Len(chunks) THEN EmbedOne(chunks[i]) ELSE <<"vec", "extra">>]

\* f"{source_name}-{i}"
MakeId(source_name, i) == source_name \o "-" \o ToString(i)

\* the loop over enumerate(zip(chunks, vectors)): zip stops at the shorter one
BuildVectors(source_name, chunks, vectors) ==
    [j \in 1..Min(Len(chunks), Len(vectors)) |->
        [id       |-> MakeId(source_name, j - 1),
         values   |-> vectors[j],
         metadata |-> [text |-> chunks[j], source |-> source_name]]]

\* the number of batches index.upsert cuts the vectors into
NumBatches(vectors) == (Len(vectors) + BatchSize - 1) \div BatchSize

\* the k-th batch (1-based) holds the vectors BatchFirst(k)..BatchLast(vectors, k)
\* (1-based positions), position order
BatchFirst(k) == (k - 1) * BatchSize + 1

BatchLast(vectors, k) == Min(k * BatchSize, Len(vectors))

\* the vectors lo..hi as a map from id to record; of two vectors with one id
\* the later one stays
RECURSIVE RangeMap(_, _, _)
RangeMap(vectors, lo, hi) ==
    IF lo = hi
    THEN vectors[lo].id :> [values |-> vectors[lo].values, metadata |-> vectors[lo].metadata]
    ELSE LET mid == (lo + hi) \div 2
         IN RangeMap(vectors, mid + 1, hi) @@ RangeMap(vectors, lo, mid)

\* the requests index.upsert sends for the vectors: one map from id to record
\* per batch
Batches(vectors) ==
    [k \in 1..NumBatches(vectors) |-> RangeMap(vectors, BatchFirst(k), BatchLast(vectors, k))]

\* faulty variant: an insert that keeps the record an id already has
UpsertBatchInsertOnly(st, batch) == st @@ batch

\* faulty variant: a write that replaces the whole content of the namespace
UpsertBatchReplacingAll(st, batch) == batch

\* one upsert request: insert-or-replace keyed by id
UpsertBatch(st, batch) == batch @@ st

\* the batches 1..n written one after the other
RECURSIVE WriteBatches(_, _, _)
WriteBatches(st, batches, n) ==
    IF n = 0 THEN st
    ELSE UpsertBatch(WriteBatches(st, batches, n - 1), batches[n])

\* faulty variant: a transactional upsert: a failing request undoes the earlier ones
BatchesWrittenRollback(batches, failAt) ==
    IF failAt = 0 THEN Len(batches) ELSE 0

\* index.upsert(vectors, batch_size=100): failAt = 0 when every request
\* succeeds, else the number of the batch whose request fails; the batches
\* before it are written, the failing one and those after it are not
BatchesWritten(batches, failAt) ==
    IF failAt = 0 THEN Len(batches) ELSE failAt - 1

IndexUpsert(st, batches, failAt) == WriteBatches(st, batches, BatchesWritten(batches, failAt))

\* the reply sizes the embedding service may give for n chunks
VectorCounts(n) == {m \in {n - Skew, n, n + Skew} : m >= 0}

\* the inputs of one run of the embedding step: the source, the text and the
\* number of vectors the embedding service returns
Runs == {<<source_name, text, m>> \in Sources \X Texts \X (0..(LongText + Skew)) :
            m \in VectorCounts(text.windows)}

\* SplitText, EmbedDocuments, BuildVectors and Batches are pure: the requests
\* of each run, tabulated (f @@ <<>> is f, written out as a table)
BatchesOf ==
    [r \in Runs |->
        Batches(BuildVectors(r[1], SplitText(r[2]), EmbedDocuments(SplitText(r[2]), r[3]))) @@ <<>>]
    @@ <<>>

\* the ids of the records of the requests
IdsOf(batches) == UNION {DOMAIN batches[k] : k \in 1..Len(batches)}

\* faulty variant: the embedding error is swallowed and the upsert goes ahead
StoreAfterSwallowedError(st, embedOk, batches, failAt) == IndexUpsert(st, batches, failAt)

\* lines 39-48: index.upsert is reached only when embed_documents returned
StoreAfter(st, embedOk, batches, failAt) ==
    IF embedOk THEN IndexUpsert(st, batches, failAt) ELSE st

NoCall == [op |-> "none"]

NoRetry == [of |-> "none"]

\* ingest_text_data(source_name, text); embedOk = FALSE when embed_documents
\* raises, m = number of vectors it returns otherwise; failAt as in IndexUpsert.
\* `call` records the call that ended last: its inputs, the replies of the
\* services, how it ended (result), the ids of the records it built, the
\* number of batches it wrote, the store
\* as it was before the call; `retry` tells, of a call that completed, whether
\* the call before it had the same inputs and replies and reached the upsert,
\* and how that one ended
IngestTextData(source_name, text, embedOk, m, failAt) ==
    LET batches == BatchesOf[<<source_name, text, m>>]
        result  == IF ~embedOk THEN "EmbeddingError"
                   ELSE IF failAt # 0 THEN "StoreWriteError" ELSE "ok"
        again   == /\ result = "ok"
                   /\ call.op = "ingest"
                   /\ call.embedOk /\ embedOk
                   /\ call.source = source_name /\ call.text = text /\ call.nvectors = m
    IN /\ store' = StoreAfter(store, embedOk, batches, failAt)
       /\ call' = [op       |-> "ingest",
                   source   |-> source_name,
                   text     |-> text,
                   embedOk  |-> embedOk,
                   nvectors |-> IF embedOk THEN m ELSE 0,
                   ids      |-> IF embedOk THEN IdsOf(batches) ELSE {},
                   failAt   |-> failAt,
                   written  |-> IF embedOk THEN BatchesWritten(batches, failAt) ELSE 0,
                   result   |-> result,
                   before   |-> store,
                   retry    |-> IF again
                                THEN [of      |-> call.result,
                                      written |-> call.written,
                                      ids     |-> call.ids,
                                      before  |-> call.before]
                                ELSE NoRetry]
       /\ UNCHANGED query

Ingest ==
    \E source_name \in Sources, text \in Texts :
        \/ \E m \in VectorCounts(text.windows) :
               \E failAt \in 0..Len(BatchesOf[<<source_name, text, m>>]) :
                   IngestTextData(source_name, text, TRUE, m, failAt)
        \/ IngestTextData(source_name, text, FALSE, text.windows, 0)

(* -------------------------------- query -------------------------------- *)

\* a string is the sequence of its characters
NL == "\n"

\* the chunk texts the store may hold: one line, or several lines of which one
\* looks like a citation line
CandidateTexts ==
    { <<"a">>,
      <<"b", NL, "[", "2", "]", " ", "c">> }

\* a match of index.query(include_metadata=True): its metadata holds a text,
\* or (a record some other writer upserted) none
MatchSamples ==
    {[metadata |-> [text |-> t, source |-> "doc1"]] : t \in CandidateTexts}
        \cup {[metadata |-> [source |-> "doc1"]]}

SeqsUpTo(S, n) == UNION {[1..k -> S] : k \in 0..n}

\* the replies of index.query(top_k=5): at most top_k matches
MatchLists == SeqsUpTo(MatchSamples, TopK)

\* the index field of a rerank result: a position of the documents, or (a
\* reranker breaking its contract) up to IndexSlack positions off either end,
\* where Python counts a negative index from the end of the list
RerankIndices == (0 - (TopK + IndexSlack))..(TopK - 1 + IndexSlack)

\* the replies of co.rerank(top_n=3): at most top_n results
RerankLists == SeqsUpTo([index : RerankIndices], TopN)

HasText(match) == "text" \in DOMAIN match.metadata

\* faulty variant: a match without a text is skipped
RetrievedDocsSkipping(matches) ==
    LET kept == SelectSeq(matches, HasText)
    IN [raises |-> FALSE, docs |-> [i \in 1..Len(kept) |-> kept[i].metadata.text]]

\* [match['metadata']['text'] for match in retrieved_results['matches']]:
\* the list, or the KeyError of the first match without a text
RetrievedDocs(matches) ==
    IF \E i \in 1..Len(matches) : ~HasText(matches[i])
    THEN [raises |-> TRUE, docs |-> <<>>]
    ELSE [raises |-> FALSE, docs |-> [i \in 1..Len(matches) |-> matches[i].metadata.text]]

\* Python's list[k]: defined for -len <= k < len, a negative k counting from the end
PyInRange(list, k) == -Len(list) <= k /\ k < Len(list)

PyGet(list, k) == IF k >= 0 THEN list[k + 1] ELSE list[Len(list) + k + 1]

\* faulty variant: the document is taken at the position of the result
DocTextByPosition(retrieved_docs, result, i) ==
    retrieved_docs[(i % Len(retrieved_docs)) + 1]

\* doc_text = retrieved_docs[result.index], in iteration i (0-based) of the loop
DocText(retrieved_docs, result, i) == PyGet(retrieved_docs, result.index)

\* whether that lookup raises IndexError
DocTextRaises(retrieved_docs, result, i) == ~PyInRange(retrieved_docs, result.index)

DigitChar(d) == <<"0", "1", "2", "3", "4", "5", "6", "7", "8", "9">>[d + 1]

\* str(n) for n >= 0
RECURSIVE Digits(_)
Digits(n) == IF n < 10 THEN <<DigitChar(n)>> ELSE Digits(n \div 10) \o <<DigitChar(n % 10)>>

\* f"[{i+1}] {doc_text}\n"
ContextLine(i, doc_text) == <<"[">> \o Digits(i + 1) \o <<"]", " ">> \o doc_text \o <<NL>>

\* {"id": i + 1, "text": doc_text}
SourceEntry(i, doc_text) == [id |-> i + 1, text |-> doc_text]

\* context_for_llm after the first n iterations of the loop
RECURSIVE ContextUpTo(_, _, _)
ContextUpTo(retrieved_docs, results, n) ==
    IF n = 0 THEN <<>>
    ELSE ContextUpTo(retrieved_docs, results, n - 1)
            \o ContextLine(n - 1, DocText(retrieved_docs, results[n], n - 1))

\* sources_for_response after the first n iterations of the loop
SourcesUpTo(retrieved_docs, results, n) ==
    [j \in 1..n |-> SourceEntry(j - 1, DocText(retrieved_docs, results[j], j - 1))]

\* the loop stops at the first result whose lookup raises
LoopRaises(retrieved_docs, results) ==
    \E j \in 1..Len(results) : DocTextRaises(retrieved_docs, results[j], j - 1)

None == [none |-> TRUE]

Stages == <<"embed_query", "index_query", "retrieved_docs", "rerank", "compose", "generate", "return">>

StageNo(stage) == CHOOSE k \in 1..Len(Stages) : Stages[k] = stage

\* the external calls that may raise
FailPoints == {"embed_query", "index_query", "rerank", "generate"}

Idle == [pc |-> "idle"]

\* process_query(query): fail = the external call that raises, or "none";
\* matches = the store's reply, results = the reranker's reply.  The record
\* keeps the locals of the call as they are when it ends: `stage` is where it
\* ended, `error` what it raised, `response` what it returned
ProcessQuery(fail, matches, results) ==
    LET retrieved_docs == RetrievedDocs(matches).docs
        docsOk   == ~RetrievedDocs(matches).raises
        loopOk   == docsOk /\ ~LoopRaises(retrieved_docs, results)
        stage    == IF fail \in {"embed_query", "index_query"} THEN fail
                    ELSE IF ~docsOk THEN "retrieved_docs"
                    ELSE IF fail = "rerank" THEN "rerank"
                    ELSE IF ~loopOk THEN "compose"
                    ELSE IF fail = "generate" THEN "generate"
                    ELSE "return"
        error    == CASE stage = "embed_query"    -> "EmbeddingError"
                      [] stage = "index_query"    -> "StoreQueryError"
                      [] stage = "retrieved_docs" -> "KeyError"
                      [] stage = "rerank"         -> "RerankError"
                      [] stage = "compose"        -> "IndexError"
                      [] stage = "generate"       -> "GenerationError"
                      [] OTHER                    -> "none"
        composed == StageNo(stage) > StageNo("compose")
        sources  == IF composed THEN SourcesUpTo(retrieved_docs, results, Len(results)) ELSE <<>>
    IN /\ query' = [pc             |-> "done",
                    stage          |-> stage,
                    error          |-> error,
                    matches        |-> matches,
                    retrieved_docs |-> retrieved_docs,
                    results        |-> results,
                    context        |-> IF composed
                                       THEN ContextUpTo(retrieved_docs, results, Len(results))
                                       ELSE <<>>,
                    sources        |-> sources,
                    response       |-> IF stage = "return"
                                       THEN [answer |-> "generated", sources |-> sources]
                                       ELSE None]
       /\ UNCHANGED <<store, call>>

\* a request: the calls the handler makes, in its order, each with its reply
Query ==
    /\ query = Idle
    /\ \/ ProcessQuery("embed_query", <<>>, <<>>)
       \/ ProcessQuery("index_query", <<>>, <<>>)
       \/ \E matches \in MatchLists :
             IF RetrievedDocs(matches).raises
             THEN ProcessQuery("none", matches, <<>>)
             ELSE \/ ProcessQuery("rerank", matches, <<>>)
                  \/ \E results \in RerankLists :
                        IF LoopRaises(RetrievedDocs(matches).docs, results)
                        THEN ProcessQuery("none", matches, results)
                        ELSE \/ ProcessQuery("none", matches, results)
                             \/ ProcessQuery("generate", matches, results)

\* the caller has the response (or the error); the next request may come
QueryReturns ==
    /\ query.pc = "done"
    /\ query' = Idle
    /\ UNCHANGED <<store, call>>

Init ==
    /\ store = <<>>
    /\ call = NoCall
    /\ query = Idle

Next == Ingest

Spec == Init /\ [][Next]_vars

QueryNext == Query \/ QueryReturns

QuerySpec == Init /\ [][QueryNext]_vars

(* ------------------------- ingestion: properties ----------------------- *)

\* what the data model asks of the record of position p (0-based) of a text:
\* id "{source_name}-{position}", the chunk's embedding, the chunk's text
ExpectedId(source_name, p) == source_name \o "-" \o ToString(p)

ExpectedRecord(source_name, text, p) ==
    [values   |-> <<"vec", text.body \o ToString(p)>>,
     metadata |-> [text |-> text.body \o ToString(p), source |-> source_name]]

\* the number of records a call that reached the upsert built
Built(c) == Cardinality(c.ids)

\* st is base with the records of positions 0..cnt-1 of (source_name, text)
\* inserted or replaced and nothing else added, removed or changed
IsOverwrite(st, base, source_name, text, cnt) ==
    LET ids == {ExpectedId(source_name, p) : p \in 0..(cnt - 1)}
    IN /\ DOMAIN st = DOMAIN base \cup ids
       /\ \A p \in 0..(cnt - 1) :
             st[ExpectedId(source_name, p)] = ExpectedRecord(source_name, text, p)
       /\ \A id \in DOMAIN base \ ids : st[id] = base[id]

\* the record of id is in the store exactly as it was (or was not) before the call
Untouched(id) ==
    /\ id \in DOMAIN store <=> id \in DOMAIN call.before
    /\ id \in DOMAIN store => store[id] = call.before[id]

\* C3 (as claimed): when the embedding service returns a number of vectors other
\* than the number of chunks, the ingestion fails with a precondition failure
\* and the store is left as it was
C3_MismatchIsFatal ==
    (call.op = "ingest" /\ call.embedOk /\ call.nvectors # call.text.windows)
        => (call.result = "PreconditionFailure" /\ store = call.before)

\* C4 (as claimed): ingesting the empty text is a no-op: no error, no batch
\* written, the store left as it was
C4_EmptyTextIsNoOp ==
    (call.op = "ingest" /\ call.text.windows = 0)
        => (call.result = "ok" /\ call.written = 0 /\ store = call.before)

\* C5: when the embedding call fails, the call ends with that error and the
\* store is as it was before the call: no batch is written
C5_EmbedFailureWritesNothing ==
    (call.op = "ingest" /\ ~call.embedOk)
        => (call.result = "EmbeddingError" /\ call.written = 0 /\ store = call.before)

C5_Witness ==
    /\ call.op = "ingest" /\ ~call.embedOk
    /\ call.text.windows = LongText
    /\ DOMAIN store # {}

\* C7: a complete run of ingest_text_data(s, T) that follows a run of the same
\* (s, T) with the same embeddings - complete, or aborted by a store-write
\* failure - builds the same ids as that run, one id per record, and leaves the
\* store as one complete run from the store before the first run leaves it:
\* that store with the records of the run inserted or replaced
C7_RerunIsIdempotent ==
    (call.op = "ingest" /\ call.retry # NoRetry)
        => /\ call.retry.of \in {"ok", "StoreWriteError"}
           /\ call.ids = call.retry.ids
           /\ Built(call) = Min(call.text.windows, call.nvectors)
           /\ IsOverwrite(store, call.retry.before, call.source, call.text, Built(call))

C7_Witness ==
    /\ call.op = "ingest" /\ call.retry # NoRetry
    /\ call.retry.of = "StoreWriteError"
    /\ call.retry.written >= 1
    /\ Built(call) = LongText
    /\ ExpectedId(call.source, 0) \in DOMAIN call.retry.before
    /\ call.retry.before[ExpectedId(call.source, 0)] # store[ExpectedId(call.source, 0)]

\* C8: when the store write fails at batch k, the call ends with that error,
\* the records of batches 1..k-1 (positions below (k-1)*100) are in the store,
\* and the records of the batches after k (positions from k*100 on) are as
\* they were before the call
C8_FailedBatchKeepsEarlierOnes ==
    (call.op = "ingest" /\ call.embedOk /\ call.failAt # 0)
        => /\ call.result = "StoreWriteError"
           /\ \A p \in 0..(Built(call) - 1) :
                 /\ p < (call.failAt - 1) * BatchSize =>
                       /\ ExpectedId(call.source, p) \in DOMAIN store
                       /\ store[ExpectedId(call.source, p)]
                              = ExpectedRecord(call.source, call.text, p)
                 /\ p >= call.failAt * BatchSize => Untouched(ExpectedId(call.source, p))
           /\ \A id \in (DOMAIN store \cup DOMAIN call.before) \ call.ids : Untouched(id)

C8_Witness ==
    /\ call.op = "ingest" /\ call.embedOk /\ call.failAt = 2
    /\ Built(call) > 2 * BatchSize
    /\ ExpectedId(call.source, 2 * BatchSize) \in DOMAIN store
    /\ store[ExpectedId(call.source, 2 * BatchSize)]
           # ExpectedRecord(call.source, call.text, 2 * BatchSize)
    /\ call.before[ExpectedId(call.source, 0)] # store[ExpectedId(call.source, 0)]

\* C9: a complete ingestion writes the records it built at positions 0..m-1,
\* one record per id, and removes nothing: every record the store held at
\* another id (the positions m..n-1 of an earlier, longer ingestion of the
\* source) is still there, unchanged
C9_StaleRecordsStay ==
    (call.op = "ingest" /\ call.result = "ok")
        => /\ Built(call) = Min(call.text.windows, call.nvectors)
           /\ IsOverwrite(store, call.before, call.source, call.text, Built(call))
           /\ Cardinality(DOMAIN store) >= Cardinality(DOMAIN call.before)

C9_Witness ==
    /\ call.op = "ingest" /\ call.result = "ok"
    /\ call.text.windows = 1 /\ call.nvectors = 1
    /\ Cardinality(DOMAIN call.before) = LongText
    /\ Cardinality(DOMAIN store) = LongText
    /\ store[ExpectedId(call.source, 0)] # call.before[ExpectedId(call.source, 0)]
    /\ store[ExpectedId(call.source, 1)].metadata.text
           # ExpectedRecord(call.source, call.text, 1).metadata.text

(* --------------------------- query: properties ------------------------- *)

\* the call got as far as the list comprehension over the matches
Retrieved == query.pc = "done" /\ query.stage \notin {"embed_query", "index_query"}

\* the call entered the loop over the rerank results
Looped == query.pc = "done" /\ query.stage \in {"compose", "generate", "return"}

\* the loop ran to its end
Composed == query.pc = "done" /\ query.stage \in {"generate", "return"}

InRange(k, docs) == 0 <= k /\ k < Len(docs)

\* C1: the text of sources[i] is the retrieved document at the index of the
\* i-th rerank result, whatever the texts of the other documents
C1_SourcesJoinByIndex ==
    Composed
        => /\ Len(query.sources) = Len(query.results)
           /\ \A i \in 1..Len(query.results) :
                 InRange(query.results[i].index, query.retrieved_docs)
                     => query.sources[i].text
                            = query.retrieved_docs[query.results[i].index + 1]

C1_Witness ==
    /\ query.pc = "done" /\ query.stage = "return"
    /\ Len(query.retrieved_docs) = 5
    /\ query.results = <<[index |-> 4], [index |-> 1], [index |-> 2]>>
    /\ query.retrieved_docs[2] = query.retrieved_docs[3]
    /\ query.retrieved_docs[5] # query.retrieved_docs[1]
    /\ query.retrieved_docs[1] = query.retrieved_docs[2]
    /\ query.response.sources[1].text = query.retrieved_docs[5]

\* C2 (as claimed): a rerank result whose index is outside [0, len(docs)) makes
\* the call fail with an error and return nothing
C2_OutOfRangeIsFatal ==
    (Looped /\ \E i \in 1..Len(query.results) :
                   ~InRange(query.results[i].index, query.retrieved_docs))
        => (query.error = "IndexError" /\ query.response = None /\ query.sources = <<>>)

\* the lines of a context block: a line ends at each line break
LineEnds(ctx) == {e \in 1..Len(ctx) : ctx[e] = NL}

LineAt(ctx, e) ==
    LET before == {p \in LineEnds(ctx) : p < e}
        start  == IF before = {} THEN 1
                  ELSE 1 + CHOOSE p \in before : \A q \in before : q <= p
    IN SubSeq(ctx, start, e - 1)

\* the place of the "]" of a line "[digits] text", 0 when the line has no such form
BracketEnd(line) ==
    LET ks == {k \in 3..(Len(line) - 1) :
                  /\ line[1] = "["
                  /\ line[k] = "]"
                  /\ line[k + 1] = " "
                  /\ \A j \in 2..(k - 1) : line[j] \in {DigitChar(d) : d \in 0..9}}
    IN IF ks = {} THEN 0 ELSE CHOOSE k \in ks : \A l \in ks : k <= l

\* the ends of the bracket-numbered lines of a context block
CitationEnds(ctx) == {e \in LineEnds(ctx) : BracketEnd(LineAt(ctx, e)) # 0}

\* the i-th bracket-numbered line
CitationLine(ctx, i) ==
    LET e == CHOOSE e \in CitationEnds(ctx) :
                 Cardinality({f \in CitationEnds(ctx) : f < e}) = i - 1
    IN LineAt(ctx, e)

\* C6 (as claimed): the bracket-numbered lines of the context block and the
\* sources correspond one to one: ids 1..n in rerank order, n <= 3, as many
\* numbered lines as sources, line i numbered i and holding the text of source i
C6_ContextMatchesSources ==
    Composed
        => /\ Len(query.sources) = Len(query.results)
           /\ Len(query.sources) <= TopN
           /\ \A i \in 1..Len(query.sources) : query.sources[i].id = i
           /\ Cardinality(CitationEnds(query.context)) = Len(query.sources)
           /\ \A i \in 1..Len(query.sources) :
                 LET line == CitationLine(query.context, i)
                     k    == BracketEnd(line)
                 IN /\ SubSeq(line, 2, k - 1) = Digits(i)
                    /\ SubSeq(line, k + 2, Len(line)) = query.sources[i].text

\* C10: the retrieved documents are the texts of the matches, one per match in
\* the store's order; a match without a text makes the call fail with an error
\* and return nothing
C10_NoMatchIsSkipped ==
    Retrieved
        => IF \A i \in 1..Len(query.matches) : "text" \in DOMAIN query.matches[i].metadata
           THEN /\ query.error # "KeyError"
                /\ Len(query.retrieved_docs) = Len(query.matches)
                /\ \A i \in 1..Len(query.matches) :
                      query.retrieved_docs[i] = query.matches[i].metadata.text
           ELSE /\ query.error = "KeyError"
                /\ query.response = None
                /\ query.sources = <<>>

C10_Witness ==
    /\ Retrieved
    /\ Len(query.matches) = 3
    /\ "text" \in DOMAIN query.matches[1].metadata
    /\ "text" \notin DOMAIN query.matches[2].metadata
    /\ "text" \in DOMAIN query.matches[3].metadata
    /\ query.error = "KeyError"

====
